---- MODULE Spec2Model ----
(***************************************************************************)
(* Scenario ROI engine of extra_brain_client (src/unnamed/part_003):       *)
(* computeNPV, computeIRR, buildCashflowsFromProjection,                   *)
(* calculateScenarioROI and runSensitivityAnalysis.                        *)
(*                                                                         *)
(* JavaScript numbers are modelled as decimal floating point values with   *)
(* an 8 digit significand: every arithmetic operation rounds its result to *)
(* 8 significant digits, overflows to Infinity above 1e308, and NaN and    *)
(* the infinities propagate as in IEEE-754.  The sign of zero is not kept. *)
(***************************************************************************)
EXTENDS Integers, Sequences, FiniteSets, TLC

VARIABLES
  call,    \* the engine function invoked and its arguments
  gemini,  \* what fillRoiProjectionsViaGemini did for this call
  ret,     \* the function's result, Pending until it returns
  again,   \* the result of calling calculateScenarioROI once more, same arguments
  uploads,      \* the uploads collection: one document per upload id
  mappings,     \* the uploadMappings collection, in order of creation
  reqs,         \* the commitUpload requests: arguments, position, reply
  workers,      \* the processUpload run started by each commit request
  statusReply   \* the getUploadStatus request served and its reply

engineVars == <<call, gemini, ret, again>>
uploadVars == <<uploads, mappings, reqs, workers, statusReply>>
vars == <<engineVars, uploadVars>>

(***************************************************************************)
(* JavaScript values: undefined, and numbers (finite, NaN, +-Infinity).    *)
(* A finite number is m * 10^e, with m not divisible by 10 and             *)
(* |m| < 10^8; zero is m = 0, e = 0.                                       *)
(***************************************************************************)
Undefined == [k |-> "undefined", m |-> 0, e |-> 0]
NaN == [k |-> "nan", m |-> 0, e |-> 0]
PosInf == [k |-> "inf", m |-> 1, e |-> 0]
NegInf == [k |-> "inf", m |-> -1, e |-> 0]
Zero == [k |-> "fin", m |-> 0, e |-> 0]

IsNum(x) == x.k \in {"fin", "nan", "inf"}
\* isFinite(x) on a number
IsFinite(x) == x.k = "fin"
IsNaN(x) == x.k = "nan"
IsInf(x) == x.k = "inf"

AbsInt(n) == IF n < 0 THEN -n ELSE n
SignInt(n) == IF n < 0 THEN -1 ELSE IF n > 0 THEN 1 ELSE 0

Pow10(n) ==
  CASE n = 0 -> 1
    [] n = 1 -> 10
    [] n = 2 -> 100
    [] n = 3 -> 1000
    [] n = 4 -> 10000
    [] n = 5 -> 100000
    [] n = 6 -> 1000000
    [] n = 7 -> 10000000
    [] n = 8 -> 100000000
    [] n = 9 -> 1000000000

\* number of decimal digits of n >= 0 (0 has none)
Digits(n) ==
  IF n = 0 THEN 0
  ELSE IF n < 10 THEN 1
  ELSE IF n < 100 THEN 2
  ELSE IF n < 1000 THEN 3
  ELSE IF n < 10000 THEN 4
  ELSE IF n < 100000 THEN 5
  ELSE IF n < 1000000 THEN 6
  ELSE IF n < 10000000 THEN 7
  ELSE IF n < 100000000 THEN 8
  ELSE IF n < 1000000000 THEN 9
  ELSE 10

RECURSIVE StripZeros(_, _)
\* <<n, e>> with the trailing zeros of n > 0 moved into the exponent
StripZeros(n, e) ==
  IF n % 10 = 0 THEN StripZeros(n \div 10, e + 1) ELSE <<n, e>>

\* n > 0 with its last d digits rounded away (half up)
RoundBy(n, e, d) ==
  IF d <= 0 THEN <<n, e>>
  ELSE <<(n + (Pow10(d) \div 2)) \div Pow10(d), e + d>>

\* n > 0 rounded (half up) to 8 significant digits
RoundSig(n, e) == RoundBy(n, e, Digits(n) - 8)

\* the number s * t[1] * 10^(t[2]): magnitudes above 1e308 become an
\* infinity, below 1e-324 zero
Pack(s, t) ==
  IF t[2] + Digits(t[1]) > 309 THEN (IF s < 0 THEN NegInf ELSE PosInf)
  ELSE IF t[2] + Digits(t[1]) < -323 THEN Zero
  ELSE [k |-> "fin", m |-> s * t[1], e |-> t[2]]

Normalize(p) == StripZeros(p[1], p[2])

\* The number s * n * 10^e (s = +-1, n >= 0), rounded to the representation
MkNum(s, n, e) ==
  IF n = 0 THEN Zero ELSE Pack(s, Normalize(RoundSig(n, e)))

\* numeric literal m * 10^e
Num(m, e) == MkNum(SignInt(m), AbsInt(m), e)
Whole(n) == Num(n, 0)

Neg(a) ==
  IF IsNaN(a) THEN NaN ELSE [a EXCEPT !.m = -a.m]

\* Math.abs
Abs(a) ==
  IF IsNaN(a) THEN NaN ELSE [a EXCEPT !.m = AbsInt(a.m)]

\* <<m, e>> of a finite nonzero a with the significand scaled to 9 digits
Scale9(a) ==
  <<a.m * Pow10(9 - Digits(AbsInt(a.m))), a.e - (9 - Digits(AbsInt(a.m)))>>

\* hiM * 10^hiE + loM * 10^(hiE - diff), the smaller operand cut to the
\* digits of the larger one
AddShifted(hiM, loM, hiE, diff) ==
  Num(hiM + (IF diff > 9 THEN 0 ELSE SignInt(loM) * (AbsInt(loM) \div Pow10(diff))), hiE)

AddAligned(x, y) ==
  IF x[2] >= y[2] THEN AddShifted(x[1], y[1], x[2], x[2] - y[2])
  ELSE AddShifted(y[1], x[1], y[2], y[2] - x[2])

\* a + b
Add(a, b) ==
  IF IsNaN(a) \/ IsNaN(b) THEN NaN
  ELSE IF IsInf(a) THEN (IF IsInf(b) /\ b.m # a.m THEN NaN ELSE a)
  ELSE IF IsInf(b) THEN b
  ELSE IF a.m = 0 THEN b
  ELSE IF b.m = 0 THEN a
  ELSE AddAligned(Scale9(a), Scale9(b))

\* a - b
Sub(a, b) == Add(a, Neg(b))

\* s * (q * 10^8 + rem) * 10^e cut to 9 digits, q having d >= 1 digits
MulTop(s, q, rem, e, d) ==
  MkNum(s, q * Pow10(9 - d) + (rem \div Pow10(d - 1)), e + d - 1)

MulJoin(s, q, rem, e) ==
  IF q = 0 THEN MkNum(s, rem, e) ELSE MulTop(s, q, rem, e, Digits(q))

MulCarry(s, hi, carry, lo, e) ==
  MulJoin(s, hi + (carry \div 10000), (carry % 10000) * 10000 + (lo % 10000), e)

\* the product of a1 * 10^4 + a0 and b1 * 10^4 + b0, by 4-digit limbs
MulLimbs(s, a1, a0, b1, b0, e) ==
  MulCarry(s, a1 * b1, a1 * b0 + a0 * b1 + ((a0 * b0) \div 10000), a0 * b0, e)

\* a * b
Mul(a, b) ==
  IF IsNaN(a) \/ IsNaN(b) THEN NaN
  ELSE IF IsInf(a) \/ IsInf(b)
    THEN (IF a.m = 0 \/ b.m = 0 THEN NaN
          ELSE IF SignInt(a.m) * SignInt(b.m) < 0 THEN NegInf ELSE PosInf)
  ELSE IF a.m = 0 \/ b.m = 0 THEN Zero
  ELSE MulLimbs(SignInt(a.m) * SignInt(b.m),
                AbsInt(a.m) \div 10000, AbsInt(a.m) % 10000,
                AbsInt(b.m) \div 10000, AbsInt(b.m) % 10000, a.e + b.e)

RECURSIVE DivStep(_, _, _, _)
\* k more digits of the long division with remainder r and quotient q so far
DivStep(r, nb, q, k) ==
  IF k = 0 THEN <<q, r>>
  ELSE DivStep((r * 10) % nb, nb, q * 10 + ((r * 10) \div nb), k - 1)

\* <<n, e>> of a finite nonzero a with |significand| scaled to 8 digits
Scale8(a) ==
  <<AbsInt(a.m) * Pow10(8 - Digits(AbsInt(a.m))), a.e - (8 - Digits(AbsInt(a.m)))>>

\* the quotient qr[1] rounded up when the remainder qr[2] is at least nb / 2
DivRound(s, qr, nb, e) ==
  MkNum(s, IF qr[1] < Pow10(8) /\ 2 * qr[2] >= nb THEN qr[1] + 1 ELSE qr[1], e)

DivAligned(s, x, y) ==
  DivRound(s, DivStep(x[1] % y[1], y[1], x[1] \div y[1], 8), y[1], x[2] - y[2] - 8)

\* a / b
Div(a, b) ==
  IF IsNaN(a) \/ IsNaN(b) THEN NaN
  ELSE IF IsInf(a)
    THEN (IF IsInf(b) THEN NaN
          ELSE IF a.m * (IF b.m < 0 THEN -1 ELSE 1) < 0 THEN NegInf ELSE PosInf)
  ELSE IF IsInf(b) THEN Zero
  ELSE IF b.m = 0
    THEN (IF a.m = 0 THEN NaN ELSE IF a.m < 0 THEN NegInf ELSE PosInf)
  ELSE IF a.m = 0 THEN Zero
  ELSE DivAligned(SignInt(a.m) * SignInt(b.m), Scale8(a), Scale8(b))

\* the sign of a finite or infinite number
Sgn(a) == SignInt(a.m)

\* a < b, a <= b, a > b (false when either is NaN)
Lt(a, b) ==
  /\ ~IsNaN(a) /\ ~IsNaN(b)
  /\ IF IsInf(a) \/ IsInf(b)
       THEN (IF IsInf(a) /\ IsInf(b) THEN a.m < b.m
             ELSE IF IsInf(a) THEN a.m < 0 ELSE b.m > 0)
       ELSE IF Sgn(a) # Sgn(b) THEN Sgn(a) < Sgn(b)
       ELSE Sgn(Sub(a, b)) < 0
Gt(a, b) == Lt(b, a)
Le(a, b) == ~IsNaN(a) /\ ~IsNaN(b) /\ (a = b \/ Lt(a, b))
Ge(a, b) == Le(b, a)

\* Math.max, Math.min
Max(a, b) == IF IsNaN(a) \/ IsNaN(b) THEN NaN ELSE IF Lt(a, b) THEN b ELSE a
Min(a, b) == IF IsNaN(a) \/ IsNaN(b) THEN NaN ELSE IF Lt(b, a) THEN b ELSE a

RECURSIVE Pow(_, _)
\* Math.pow(x, t) for an integer t >= 0
Pow(x, t) == IF t = 0 THEN Whole(1) ELSE Mul(Pow(x, t - 1), x)

\* Number(v): undefined is NaN
Number(v) == IF IsNum(v) THEN v ELSE NaN

\* v || d : undefined, 0 and NaN are falsy
OrElse(v, d) == IF IsNum(v) /\ ~IsNaN(v) /\ v.m # 0 THEN v ELSE d

\* Number(x.toFixed(2)): x rounded to 2 decimals, halves away from zero
ToFixed2(x) ==
  IF ~IsFinite(x) \/ x.e >= -2 THEN x
  ELSE IF (-2) - x.e > 8 THEN Zero
  ELSE MkNum(SignInt(x.m),
             (AbsInt(x.m) + (Pow10((-2) - x.e) \div 2)) \div Pow10((-2) - x.e), -2)

(***************************************************************************)
(* Arrays and objects.  An array is [k |-> "array", items |-> <<...>>];    *)
(* a Projection object has the five fields the engine reads, each a number *)
(* or undefined; an absent projection is Undefined.                        *)
(***************************************************************************)
Arr(items) == [k |-> "array", items |-> items]
IsArray(v) == v.k = "array"

Proj(ni, ebitda, inv, growth, mult) ==
  [k |-> "object", NetIncome |-> ni, EBITDA |-> ebitda, initialInvestment |-> inv,
   growthRate |-> growth, terminalMultiple |-> mult]
\* the object {} (and any value without these fields, such as the string "TBD")
EmptyObj == Proj(Undefined, Undefined, Undefined, Undefined, Undefined)
\* !!v for a projection slot: objects are truthy, undefined is not
Present(p) == p.k = "object"
\* p?.field
Field(p, name) == IF Present(p) THEN p[name] ELSE Undefined

\* the concatenation of F(x) for x in seq, in order (a for..of loop that
\* appends F(x) to the results)
FlatMap(seq, F(_)) ==
  LET acc[i \in 0..Len(seq)] == IF i = 0 THEN <<>> ELSE acc[i - 1] \o F(seq[i])
  IN  acc[Len(seq)]

(***************************************************************************)
(* computeNPV (part_003:655-659)                                           *)
(***************************************************************************)
RECURSIVE NPVReduceOneBased(_, _, _, _)
\* NPVReduce discounting entry t by (1 + rate)^(t + 1)
NPVReduceOneBased(rate, items, t, acc) ==
  IF t >= Len(items) THEN acc
  ELSE NPVReduceOneBased(rate, items, t + 1,
                         Add(acc, Div(items[t + 1], Pow(Add(Whole(1), rate), t + 1))))

RECURSIVE NPVReduce(_, _, _, _)
\* cashflows.reduce((acc, cf, t) => acc + cf / Math.pow(1 + rate, t), 0), from index t
NPVReduce(rate, items, t, acc) ==
  IF t >= Len(items) THEN acc
  ELSE NPVReduce(rate, items, t + 1,
                 Add(acc, Div(items[t + 1], Pow(Add(Whole(1), rate), t))))

computeNPV(rate, cashflows) ==
  IF ~IsArray(cashflows) THEN Zero
  ELSE NPVReduce(rate, cashflows.items, 0, Zero)

(***************************************************************************)
(* computeIRR (part_003:662-679)                                           *)
(***************************************************************************)
MaxIterations == 100
DefaultGuess == Num(1, -1)
Tolerance == Num(1, -7)
TinySlope == Num(1, -9)
MinRate == Num(-99, -2)

RECURSIVE IRRSums(_, _, _, _, _)
\* the inner loop over t: <<npv, dnpv>> at rate r
IRRSums(items, r, t, npv, dnpv) ==
  IF t >= Len(items) THEN <<npv, dnpv>>
  ELSE LET cf == items[t + 1]
           denom == Pow(Add(Whole(1), r), t)
           npv2 == Add(npv, Div(cf, denom))
           dnpv2 == IF t > 0
                      THEN Add(dnpv, Div(Mul(Whole(-t), cf), Pow(Add(Whole(1), r), t + 1)))
                      ELSE dnpv
       IN  IRRSums(items, r, t + 1, npv2, dnpv2)

\* NewtonFrom stepping up the slope
NewtonFromAdded(r, sums) == Add(r, Div(sums[1], OrElse(sums[2], TinySlope)))

\* one Newton step: newR = r - npv / (dnpv || 1e-9)
NewtonFrom(r, sums) == Sub(r, Div(sums[1], OrElse(sums[2], TinySlope)))

NewtonStep(items, r) == NewtonFrom(r, IRRSums(items, r, 0, Zero, Zero))

\* IRRAdvance without the break on a non-finite step
IRRAdvanceNoBreak(st, newR) ==
  IF Lt(Abs(Sub(newR, st.r)), Tolerance)
    THEN [r |-> newR, steps |-> st.steps + 1, exit |-> "converged"]
  ELSE [r |-> Max(MinRate, newR), steps |-> st.steps + 1, exit |-> "running"]

\* one pass of the for loop body on the loop state [r, steps, exit]; a loop
\* that has returned or broken stays as it is
IRRAdvance(st, newR) ==
  IF ~IsFinite(newR)
    THEN [r |-> st.r, steps |-> st.steps + 1, exit |-> "break"]
  ELSE IF Lt(Abs(Sub(newR, st.r)), Tolerance)
    THEN [r |-> newR, steps |-> st.steps + 1, exit |-> "converged"]
  ELSE [r |-> Max(MinRate, newR), steps |-> st.steps + 1, exit |-> "running"]

IRRStep(items, st) ==
  IF st.exit # "running" THEN st ELSE IRRAdvance(st, NewtonStep(items, st.r))

RECURSIVE IRRLoop(_, _, _)
\* n passes of the loop body
IRRLoop(items, st, n) ==
  IF n = 0 THEN st
  ELSE IF n = 1 THEN IRRStep(items, st)
  ELSE LET half == IRRLoop(items, st, n \div 2)
       IN  IF half.exit # "running" THEN half
           ELSE IRRLoop(items, half, n - (n \div 2))

\* the value returned, the exit taken (the convergence return, the break on
\* a non-finite step, or the iteration cap) and the Newton steps computed
IRRResult(final) ==
  [value |-> final.r,
   exit |-> IF final.exit = "running" THEN "cap" ELSE final.exit,
   steps |-> final.steps]

IRRRun(cashflows, guess) ==
  IRRResult(IRRLoop(cashflows.items, [r |-> guess, steps |-> 0, exit |-> "running"],
                    MaxIterations))

computeIRR(cashflows, guess) == IRRRun(cashflows, guess).value

(***************************************************************************)
(* buildCashflowsFromProjection (part_003:682-703)                         *)
(***************************************************************************)
DefaultYears == 5
DefaultCapexPct == Num(3, -2)
DefaultNwcPct == Num(1, -2)
DefaultGrowth == Num(3, -2)
DefaultMultiple == Whole(8)
EbitdaFactor == Num(7, -1)
TerminalGrowthCap == Num(3, -2)

\* BaseFlow accepting a NetIncome of 0 as the proxy
BaseFlowNonNegative(projection) ==
  LET ni == Number(Field(projection, "NetIncome"))
      ebitda == Number(Field(projection, "EBITDA"))
  IN  IF IsFinite(ni) /\ Ge(ni, Zero) THEN ni
      ELSE IF IsFinite(ebitda) THEN Mul(ebitda, EbitdaFactor) ELSE Zero

\* rough FCF proxy
BaseFlow(projection) ==
  LET ni == Number(Field(projection, "NetIncome"))
      ebitda == Number(Field(projection, "EBITDA"))
  IN  IF IsFinite(ni) /\ Gt(ni, Zero) THEN ni
      ELSE IF IsFinite(ebitda) THEN Mul(ebitda, EbitdaFactor) ELSE Zero

Growth(projection) == Number(OrElse(Field(projection, "growthRate"), DefaultGrowth))

RECURSIVE YearLoopSignedDrag(_, _, _, _, _, _, _)
\* YearLoop without Math.abs around the capex and working-capital drag
YearLoopSignedDrag(flows, f, t, years, growth, capexPct, nwcPct) ==
  IF t > years THEN [flows |-> flows, f |-> f]
  ELSE LET f2 == IF t > 1 THEN Mul(f, Add(Whole(1), growth)) ELSE f
           capex == Neg(Mul(f2, capexPct))
           nwc == Neg(Mul(f2, nwcPct))
       IN  YearLoopSignedDrag(Append(flows, Add(Add(f2, capex), nwc)), f2, t + 1, years,
                              growth, capexPct, nwcPct)

RECURSIVE YearLoopExclusive(_, _, _, _, _, _, _)
\* YearLoop running for t < years
YearLoopExclusive(flows, f, t, years, growth, capexPct, nwcPct) ==
  IF t >= years THEN [flows |-> flows, f |-> f]
  ELSE LET f2 == IF t > 1 THEN Mul(f, Add(Whole(1), growth)) ELSE f
           capex == Neg(Abs(Mul(f2, capexPct)))
           nwc == Neg(Abs(Mul(f2, nwcPct)))
       IN  YearLoopExclusive(Append(flows, Add(Add(f2, capex), nwc)), f2, t + 1, years,
                             growth, capexPct, nwcPct)

RECURSIVE YearLoop(_, _, _, _, _, _, _)
\* the for loop from year t: [flows, f] when it ends
YearLoop(flows, f, t, years, growth, capexPct, nwcPct) ==
  IF t > years THEN [flows |-> flows, f |-> f]
  ELSE LET f2 == IF t > 1 THEN Mul(f, Add(Whole(1), growth)) ELSE f
           capex == Neg(Abs(Mul(f2, capexPct)))
           nwc == Neg(Abs(Mul(f2, nwcPct)))
       IN  YearLoop(Append(flows, Add(Add(f2, capex), nwc)), f2, t + 1, years,
                    growth, capexPct, nwcPct)

\* the state at line 696: the flows pushed so far and the last proxy f
YearlyFlows(projection, years, capexPct, nwcPct) ==
  YearLoop(<<Number(OrElse(Field(projection, "initialInvestment"), Zero))>>,
           BaseFlow(projection), 1, years, Growth(projection), capexPct, nwcPct)

TerminalValue(projection, f) ==
  LET terminalGrowth == Min(Growth(projection), TerminalGrowthCap)
      terminalMultiple == Number(OrElse(Field(projection, "terminalMultiple"), DefaultMultiple))
  IN  Mul(Mul(f, Add(Whole(1), terminalGrowth)), terminalMultiple)

\* AddTerminal adding the terminal value to entry 0
AddTerminalToFirst(projection, y) ==
  Arr([y.flows EXCEPT ![1] = Add(y.flows[1], TerminalValue(projection, y.f))])

\* flows[flows.length - 1] += terminal
AddTerminal(projection, y) ==
  Arr([y.flows EXCEPT ![Len(y.flows)] =
         Add(y.flows[Len(y.flows)], TerminalValue(projection, y.f))])

buildCashflowsFromProjection(projection, years, capexPct, nwcPct) ==
  AddTerminal(projection, YearlyFlows(projection, years, capexPct, nwcPct))

(***************************************************************************)
(* calculateScenarioROI (part_003:741-791).  The reply of                  *)
(* fillRoiProjectionsViaGemini (part_003:706-738) is an input chosen by    *)
(* the environment: null, or an object holding some projections.           *)
(***************************************************************************)
Null == [k |-> "null"]
Slots == {"baseline", "optimistic", "realistic", "pessimistic"}

ProjectionSet(b, o, r, p, dr) ==
  [k |-> "object", baseline |-> b, optimistic |-> o, realistic |-> r,
   pessimistic |-> p, discountRate |-> dr]

\* projections as first read from simulationResults.roiProjections
ReadProjections(rp) ==
  ProjectionSet(rp.baseline, rp.optimistic, rp.realistic, rp.pessimistic,
                Number(rp.discountRate))

needsFill(projections) ==
  \/ \E s \in Slots :
       LET obj == projections[s]
       IN  \/ ~Present(obj)
           \/ /\ Le(Number(Field(obj, "NetIncome")), Zero)
              /\ Le(Number(Field(obj, "EBITDA")), Zero)
  \/ ~IsFinite(projections.discountRate)

DefaultRate == Num(1, -1)

\* a || b for projection slots
OrProj(a, b) == IF Present(a) THEN a ELSE b

\* the projections after the fill attempt
MergeFilled(projections, filled) ==
  IF filled.k # "object" THEN projections
  ELSE ProjectionSet(OrProj(projections.baseline, filled.baseline),
                     OrProj(projections.optimistic, filled.optimistic),
                     OrProj(projections.realistic, filled.realistic),
                     OrProj(projections.pessimistic, filled.pessimistic),
                     IF IsFinite(projections.discountRate) THEN projections.discountRate
                     ELSE Number(OrElse(filled.discountRate, DefaultRate)))

\* the projections the calculator works on, given the reply of the fill
EffectiveProjections(rp, filled) ==
  LET projections == ReadProjections(rp)
  IN  IF needsFill(projections) THEN MergeFilled(projections, filled) ELSE projections

NearZero == Num(1, -6)

\* ChooseScenario preferring optimistic over realistic
ChooseScenarioOptimisticFirst(projections) ==
  OrProj(projections.optimistic, OrProj(projections.realistic, projections.pessimistic))

\* projections.realistic || projections.optimistic || projections.pessimistic
ChooseScenario(projections) ==
  OrProj(projections.realistic, OrProj(projections.optimistic, projections.pessimistic))

\* RoiPercent without the toFixed(2) rounding
RoiPercentUnrounded(npvBaseline, npvScenario, deltaNPV) ==
  IF Gt(Abs(npvBaseline), NearZero)
    THEN Mul(Div(deltaNPV, Abs(npvBaseline)), Whole(100))
    ELSE IF npvScenario # Zero THEN Whole(100) ELSE Zero

RoiPercent(npvBaseline, npvScenario, deltaNPV) ==
  LET roiPct == IF Gt(Abs(npvBaseline), NearZero)
                  THEN Mul(Div(deltaNPV, Abs(npvBaseline)), Whole(100))
                  ELSE IF npvScenario # Zero THEN Whole(100) ELSE Zero
  IN  ToFixed2(roiPct)

\* lines 780-790: the result object
ROIResult(rate, horizonYears, baselineCF, scenarioCF, npvBaseline, npvScenario, irrScenario) ==
  [discountRate |-> rate,
   horizonYears |-> horizonYears,
   baseline |-> [cashflows |-> baselineCF, npv |-> npvBaseline],
   scenario |-> [cashflows |-> scenarioCF, npv |-> npvScenario, irr |-> irrScenario],
   deltaNPV |-> Sub(npvScenario, npvBaseline),
   scenarioRoiPercent |->
     RoiPercent(npvBaseline, npvScenario, Sub(npvScenario, npvBaseline))]

\* lines 776-778
ROIFromSeries(rate, horizonYears, baselineCF, scenarioCF) ==
  ROIResult(rate, horizonYears, baselineCF, scenarioCF, computeNPV(rate, baselineCF),
            computeNPV(rate, scenarioCF), computeIRR(scenarioCF, DefaultGuess))

\* lines 770-774
ROIFromProjections(projections, horizonYears) ==
  ROIFromSeries(
    IF IsFinite(projections.discountRate) THEN projections.discountRate ELSE DefaultRate,
    horizonYears,
    buildCashflowsFromProjection(projections.baseline, horizonYears,
                                 DefaultCapexPct, DefaultNwcPct),
    buildCashflowsFromProjection(ChooseScenario(projections), horizonYears,
                                 DefaultCapexPct, DefaultNwcPct))

calculateScenarioROI(rp, filled, horizonYears) ==
  ROIFromProjections(EffectiveProjections(rp, filled), horizonYears)

(***************************************************************************)
(* runSensitivityAnalysis (part_003:794-835)                               *)
(***************************************************************************)
SweepSet(dr, g, m, c, n) ==
  [discountRate |-> dr, growthRate |-> g, terminalMultiple |-> m, capexPct |-> c,
   nwcPct |-> n]

\* realistic || optimistic || pessimistic || baseline || {}
SweepScenario(baseProjections) ==
  OrProj(baseProjections.realistic,
    OrProj(baseProjections.optimistic,
      OrProj(baseProjections.pessimistic,
        OrProj(baseProjections.baseline, EmptyObj))))

toList(arr, fallback) ==
  SelectSeq(IF IsArray(arr) /\ Len(arr.items) > 0 THEN arr.items ELSE <<fallback>>,
            LAMBDA v : v.k # "undefined")

\* isFinite(v) ? Number(v) : fallback
FiniteOr(v, fallback) == IF IsFinite(Number(v)) THEN Number(v) ELSE fallback

\* lines 818-828: the row object
RowResult(r, g, m, c, n, npvBase, npvScen, irrScen) ==
  [discountRate |-> Number(r), growthRate |-> Number(g),
   terminalMultiple |-> Number(m), capexPct |-> Number(c), nwcPct |-> Number(n),
   baselineNPV |-> npvBase, scenarioNPV |-> npvScen,
   deltaNPV |-> Sub(npvScen, npvBase), scenarioIRR |-> irrScen]

\* lines 814-816
RowFromSeries(r, g, m, c, n, baseCF, scenCF) ==
  RowResult(r, g, m, c, n, computeNPV(Number(r), baseCF), computeNPV(Number(r), scenCF),
            computeIRR(scenCF, DefaultGuess))

\* SensitivityRow substituting the swept growth and multiple into the
\* baseline projection as well
SensitivityRowSweepsBaseline(baseline, scenarioProj, horizonYears, r, g, m, c, n) ==
  RowFromSeries(r, g, m, c, n,
    buildCashflowsFromProjection(
      [OrProj(baseline, EmptyObj) EXCEPT !.growthRate = Number(g),
                                         !.terminalMultiple = Number(m)],
      horizonYears, Number(c), Number(n)),
    buildCashflowsFromProjection(
      [scenarioProj EXCEPT !.growthRate = Number(g), !.terminalMultiple = Number(m)],
      horizonYears, Number(c), Number(n)))

\* the row pushed for one combination (r, g, m, c, n)
SensitivityRow(baseline, scenarioProj, horizonYears, r, g, m, c, n) ==
  RowFromSeries(r, g, m, c, n,
    buildCashflowsFromProjection(OrProj(baseline, EmptyObj), horizonYears,
                                 Number(c), Number(n)),
    buildCashflowsFromProjection(
      [scenarioProj EXCEPT !.growthRate = Number(g), !.terminalMultiple = Number(m)],
      horizonYears, Number(c), Number(n)))

SweepRates(baseProjections, sweeps) ==
  toList(sweeps.discountRate, FiniteOr(baseProjections.discountRate, DefaultRate))
SweepGrowths(baseProjections, sweeps) ==
  toList(sweeps.growthRate,
         FiniteOr(Field(SweepScenario(baseProjections), "growthRate"), DefaultGrowth))
SweepMultiples(baseProjections, sweeps) ==
  toList(sweeps.terminalMultiple,
         FiniteOr(Field(SweepScenario(baseProjections), "terminalMultiple"), DefaultMultiple))
SweepCapexes(sweeps) == toList(sweeps.capexPct, DefaultCapexPct)
SweepNwcs(sweeps) == toList(sweeps.nwcPct, DefaultNwcPct)

\* SpreadSource assigning the swept values into scenarioProj itself
SpreadSourceAssigned(scenarioProj, g, m) ==
  [scenarioProj EXCEPT !.growthRate = Number(g), !.terminalMultiple = Number(m)]

\* line 813: { ...scenarioProj, growthRate, terminalMultiple } is a new
\* object; the object it is spread from keeps its fields
SpreadSource(scenarioProj, g, m) == scenarioProj

\* the slot of baseProjections that scenarioProj refers to (line 796), "none"
\* when it is the fresh {}
ScenarioSlot(baseProjections) ==
  IF Present(baseProjections.realistic) THEN "realistic"
  ELSE IF Present(baseProjections.optimistic) THEN "optimistic"
  ELSE IF Present(baseProjections.pessimistic) THEN "pessimistic"
  ELSE IF Present(baseProjections.baseline) THEN "baseline"
  ELSE "none"

\* the scenario object after the last grid point of the loops
ScenarioAfterSweep(scenarioProj, growths, multiples) ==
  SpreadSource(scenarioProj, growths[Len(growths)], multiples[Len(multiples)])

\* the caller's baseProjections once runSensitivityAnalysis has returned
ProjectionsAfterSweep(baseProjections, sweeps) ==
  IF \/ ScenarioSlot(baseProjections) = "none"
     \/ Len(SweepGrowths(baseProjections, sweeps)) = 0
     \/ Len(SweepMultiples(baseProjections, sweeps)) = 0
    THEN baseProjections
  ELSE [baseProjections EXCEPT
          ![ScenarioSlot(baseProjections)] =
            ScenarioAfterSweep(@, SweepGrowths(baseProjections, sweeps),
                               SweepMultiples(baseProjections, sweeps))]

\* runSensitivityAnalysis with the loop over nwcPct outermost
runSensitivityAnalysisNwcOutermost(baseProjections, horizonYears, sweeps) ==
  LET scenarioProj == SweepScenario(baseProjections)
  IN  FlatMap(SweepNwcs(sweeps), LAMBDA n :
        FlatMap(SweepRates(baseProjections, sweeps), LAMBDA r :
          FlatMap(SweepGrowths(baseProjections, sweeps), LAMBDA g :
            FlatMap(SweepMultiples(baseProjections, sweeps), LAMBDA m :
              FlatMap(SweepCapexes(sweeps), LAMBDA c :
                <<SensitivityRow(baseProjections.baseline, scenarioProj, horizonYears,
                                 r, g, m, c, n)>>)))))

runSensitivityAnalysis(baseProjections, horizonYears, sweeps) ==
  LET scenarioProj == SweepScenario(baseProjections)
      rates == SweepRates(baseProjections, sweeps)
      growths == SweepGrowths(baseProjections, sweeps)
      multiples == SweepMultiples(baseProjections, sweeps)
      capexes == SweepCapexes(sweeps)
      nwcs == SweepNwcs(sweeps)
  IN  FlatMap(rates, LAMBDA r :
        FlatMap(growths, LAMBDA g :
          FlatMap(multiples, LAMBDA m :
            FlatMap(capexes, LAMBDA c :
              FlatMap(nwcs, LAMBDA n :
                <<SensitivityRow(baseProjections.baseline, scenarioProj, horizonYears,
                                 r, g, m, c, n)>>)))))

(***************************************************************************)
(* The upload pipeline (src/api/controllers/uploads.controllers.js and     *)
(* processUpload, src/unnamed/part_012): its collections and requests.     *)
(***************************************************************************)
MaxCommits == 2

UploadIds == {"u1", "u2"}
Tenants == {"t1", "t2"}
Requests == 1..MaxCommits

\* a request field that was not sent
Missing == "missing"

\* no document under this id
NoUpload == [exists |-> FALSE, tenantId |-> Missing, status |-> Missing]

\* the document analyzeUpload creates (lines 28-36)
NewUpload(companyId) == [exists |-> TRUE, tenantId |-> companyId, status |-> "pending"]

NoReply == [code |-> 0, body |-> "none"]
Reply(code, body) == [code |-> code, body |-> body]

\* a column that is null in a mapping
NullColumn == -1

\* the body carried no mapping
NoMapping == [sent |-> FALSE, month |-> NullColumn, revenue |-> NullColumn]

\* a commit request that has not arrived yet
IdleRequest ==
  [pc |-> "idle", companyId |-> Missing, uploadId |-> Missing, mapping |-> NoMapping,
   snap |-> 0, reply |-> NoReply]

NoStatusRequest == [companyId |-> Missing, uploadId |-> Missing, reply |-> NoReply]

\* no upload exists and no request was made
NoUploadTraffic ==
  /\ uploads = [u \in UploadIds |-> NoUpload]
  /\ mappings = <<>>
  /\ reqs = [r \in Requests |-> IdleRequest]
  /\ workers = [r \in Requests |-> "none"]
  /\ statusReply = NoStatusRequest

(***************************************************************************)
(* Inputs.  Each behaviour is one call of one engine function, with its    *)
(* arguments drawn from the sets below.                                    *)
(***************************************************************************)
MaxYears == 2
MaxLen == 3

\* the spec's concrete baseline
PBase == Proj(Whole(100), Undefined, Whole(-500), Num(3, -2), Whole(8))
\* a baseline that supplies growthRate 0 and an EBITDA-only proxy
PFlat == Proj(Undefined, Whole(100), Whole(-400), Zero, Whole(6))
\* a degenerate baseline: both figures negative
PDegenerate == Proj(Whole(-20), Whole(-10), Whole(-100), Num(2, -2), Whole(8))
PReal == Proj(Whole(120), Whole(200), Whole(-500), Num(5, -2), Whole(8))
POpt == Proj(Whole(150), Undefined, Whole(-500), Num(8, -2), Whole(10))
PPess == Proj(Whole(60), Undefined, Whole(-500), Num(-2, -2), Whole(5))
\* NetIncome 0 with an EBITDA fallback, nothing invested, terminalMultiple 0
PZeroIncome == Proj(Zero, Whole(100), Zero, Num(3, -2), Zero)
\* non-finite fields
PInfGrowth == Proj(Whole(100), Undefined, Whole(-500), PosInf, Whole(8))
PNonFinite == Proj(NaN, PosInf, NegInf, NaN, NaN)
PInfIncome == Proj(PosInf, Whole(50), NaN, Num(3, -2), PosInf)
\* a scenario that loses almost everything
PLoss == Proj(Whole(1), Undefined, Whole(-2000), Num(3, -2), Undefined)

RoiProjectionSets ==
  { ProjectionSet(b, o, r, p, dr) :
      b \in {Undefined, PBase, PFlat, PDegenerate},
      o \in {Undefined, POpt},
      r \in {Undefined, PReal},
      p \in {Undefined, PPess},
      dr \in {Undefined, Num(1, -1), Num(8, -2)} }
    \cup { ProjectionSet(PBase, POpt, PReal, PPess, PosInf),
           ProjectionSet(Undefined, Undefined, PReal, Undefined, PosInf) }

\* what the Gemini fill may return
GeminiReplies ==
  { Null,
    ProjectionSet(PBase, POpt, PReal, PPess, Num(12, -2)),
    ProjectionSet(Undefined, Undefined, PLoss, Undefined, Undefined) }

Horizons == 1..MaxYears

SweepSets ==
  { SweepSet(Undefined, Undefined, Undefined, Undefined, Undefined),
    SweepSet(Arr(<<Num(12, -2)>>), Arr(<<Num(5, -2)>>), Arr(<<Whole(10)>>),
             Arr(<<Num(3, -2)>>), Arr(<<Num(1, -2)>>)),
    SweepSet(Arr(<<Num(8, -2)>>), Arr(<<Zero>>), Arr(<<Whole(6)>>),
             Arr(<<Num(3, -2)>>), Arr(<<Num(1, -2)>>)),
    SweepSet(Arr(<<Num(12, -2), Num(8, -2)>>), Undefined, Undefined, Undefined, Undefined),
    SweepSet(Undefined, Arr(<<Num(4, -2), Num(-2, -2)>>), Arr(<<Whole(6), Zero>>),
             Undefined, Arr(<<Num(2, -2), Num(1, -2)>>)),
    SweepSet(Arr(<<>>), Undefined, Undefined, Arr(<<Num(5, -2), Num(-3, -2)>>),
             Arr(<<Zero>>)),
    SweepSet(Undefined, Undefined, Arr(<<>>), Undefined, Undefined) }

BaseProjectionSets ==
  { ProjectionSet(b, o, r, p, dr) :
      b \in {Undefined, PBase, PFlat},
      o \in {Undefined, POpt},
      r \in {Undefined, PReal},
      p \in {Undefined},
      dr \in {NaN, Num(1, -1)} }

Amounts == {Whole(-200), Whole(-100), Zero, Whole(130)}
IRRAmounts == {Whole(-200), Whole(-100), Whole(1), Whole(130)}

RECURSIVE SeqsUpTo(_, _)
\* the sequences over S of length 0..n
SeqsUpTo(S, n) ==
  IF n = 0 THEN {<<>>}
  ELSE LET shorter == SeqsUpTo(S, n - 1)
       IN  shorter \cup {Append(q, x) : q \in {z \in shorter : Len(z) = n - 1}, x \in S}

Series == {Arr(q) : q \in SeqsUpTo(Amounts, MaxLen)}
\* a series whose rate lies just below -0.99
DeepLossSeries == Arr(<<Whole(-100000000), Whole(999995)>>)
\* series holding NaN or an infinite entry
NonFiniteSeries ==
  {Arr(<<PosInf>>), Arr(<<Whole(-100), PosInf>>), Arr(<<NaN, Whole(130)>>),
   Arr(<<Whole(-100), NegInf, Whole(130)>>)}
IRRSeries ==
  {Arr(q) : q \in SeqsUpTo(IRRAmounts, MaxLen)} \cup {Arr(<<Zero, Zero>>)}
    \cup NonFiniteSeries \cup {DeepLossSeries}
\* initial guesses other than the default, and the series they are tried on
IRRGuesses == {Zero, Num(-5, -1), Num(5, -1)}
GuessedSeries ==
  {Arr(<<>>), Arr(<<Whole(1)>>), Arr(<<Whole(-100), Whole(130)>>),
   Arr(<<Whole(-200), Whole(130), Whole(130)>>), Arr(<<Whole(-100), PosInf>>)}
Rates == {Zero, Num(1, -1), Num(-5, -1), Whole(1)}

BuildProjections ==
  {Undefined, EmptyObj, PBase, PFlat, PDegenerate, PPess, POpt,
   Proj(Whole(-50), Undefined, Whole(200), Undefined, Undefined),
   PZeroIncome, PInfGrowth, PNonFinite, PInfIncome}
Percents == {Zero, Num(3, -2), Num(1, -2), Num(-3, -2)}

Pending == [kind |-> "pending"]
NotCalled == [called |-> FALSE, reply |-> Null]

NPVCalls == {[fn |-> "computeNPV", rate |-> r, cashflows |-> s] :
               r \in Rates, s \in Series \cup {Undefined}}
IRRCalls ==
  {[fn |-> "computeIRR", cashflows |-> s, guess |-> DefaultGuess] : s \in IRRSeries}
    \cup {[fn |-> "computeIRR", cashflows |-> s, guess |-> g] :
            s \in GuessedSeries, g \in IRRGuesses}
\* the spec's concrete scenario: the baseline over the default horizon
ConcreteBuildCall ==
  [fn |-> "buildCashflowsFromProjection", projection |-> PBase, years |-> DefaultYears,
   capexPct |-> DefaultCapexPct, nwcPct |-> DefaultNwcPct]
BuildCalls == {[fn |-> "buildCashflowsFromProjection", projection |-> p, years |-> y,
                capexPct |-> c, nwcPct |-> n] :
                 p \in BuildProjections, y \in 0..MaxYears, c \in Percents,
                 n \in {Num(1, -2), Num(-1, -2)}}
              \cup {ConcreteBuildCall}
ROICalls == {[fn |-> "calculateScenarioROI", roiProjections |-> rp, horizonYears |-> h] :
               rp \in RoiProjectionSets, h \in Horizons}
SensitivityCalls ==
  {[fn |-> "runSensitivityAnalysis", baseProjections |-> bp, horizonYears |-> h,
    sweeps |-> sw] : bp \in BaseProjectionSets, h \in Horizons, sw \in SweepSets}

Init ==
  /\ \/ call \in NPVCalls
     \/ call \in IRRCalls
     \/ call \in BuildCalls
     \/ call \in ROICalls
     \/ call \in SensitivityCalls
  /\ gemini = NotCalled
  /\ ret = Pending
  /\ again = Pending
  /\ NoUploadTraffic

ComputeNPV ==
  /\ call.fn = "computeNPV" /\ ret = Pending
  /\ ret' = [kind |-> "return", value |-> computeNPV(call.rate, call.cashflows)]
  /\ UNCHANGED <<call, gemini, again, uploadVars>>

ComputeIRR ==
  /\ call.fn = "computeIRR" /\ ret = Pending
  /\ LET run == IRRRun(call.cashflows, call.guess)
     IN  ret' = [kind |-> "return", value |-> run.value, exit |-> run.exit,
                 steps |-> run.steps]
  /\ UNCHANGED <<call, gemini, again, uploadVars>>

BuildCashflows ==
  /\ call.fn = "buildCashflowsFromProjection" /\ ret = Pending
  /\ ret' = [kind |-> "return",
             value |-> buildCashflowsFromProjection(call.projection, call.years,
                                                    call.capexPct, call.nwcPct),
             yearly |-> YearlyFlows(call.projection, call.years, call.capexPct,
                                    call.nwcPct)]
  /\ UNCHANGED <<call, gemini, again, uploadVars>>

\* calculateScenarioROI: the fill is awaited only when needsFill
CalculateScenarioROI ==
  /\ call.fn = "calculateScenarioROI" /\ ret = Pending
  /\ IF needsFill(ReadProjections(call.roiProjections))
       THEN \E filled \in GeminiReplies :
              /\ gemini' = [called |-> TRUE, reply |-> filled]
              /\ ret' = [kind |-> "return",
                         value |-> calculateScenarioROI(call.roiProjections, filled,
                                                        call.horizonYears)]
       ELSE /\ gemini' = gemini
            /\ ret' = [kind |-> "return",
                       value |-> calculateScenarioROI(call.roiProjections, Null,
                                                      call.horizonYears)]
  /\ UNCHANGED <<call, again, uploadVars>>

\* a second call of calculateScenarioROI with the arguments of the first
CalculateScenarioROIAgain ==
  /\ call.fn = "calculateScenarioROI" /\ ret.kind = "return" /\ again = Pending
  /\ IF needsFill(ReadProjections(call.roiProjections))
       THEN \E filled \in GeminiReplies :
              again' = [kind |-> "return", reply |-> filled,
                        value |-> calculateScenarioROI(call.roiProjections, filled,
                                                       call.horizonYears)]
       ELSE again' = [kind |-> "return", reply |-> Null,
                      value |-> calculateScenarioROI(call.roiProjections, Null,
                                                     call.horizonYears)]
  /\ UNCHANGED <<call, gemini, ret, uploadVars>>

RunSensitivityAnalysis ==
  /\ call.fn = "runSensitivityAnalysis" /\ ret = Pending
  /\ ret' = [kind |-> "return",
             value |-> runSensitivityAnalysis(call.baseProjections, call.horizonYears,
                                              call.sweeps)]
  /\ call' = [call EXCEPT !.baseProjections =
                           ProjectionsAfterSweep(call.baseProjections, call.sweeps)]
  /\ UNCHANGED <<gemini, again, uploadVars>>

Next ==
  \/ ComputeNPV
  \/ ComputeIRR
  \/ BuildCashflows
  \/ CalculateScenarioROI
  \/ CalculateScenarioROIAgain
  \/ RunSensitivityAnalysis

Spec == Init /\ [][Next]_vars

(***************************************************************************)
(* The competitive index score and the upload mapping suggestion.          *)
(***************************************************************************)
\* Math.round(x): the nearest integer, halves upward
Round(x) ==
  IF ~IsFinite(x) \/ x.e >= 0 THEN x
  ELSE IF -x.e >= 9 THEN Zero
  ELSE Whole((2 * x.m + Pow10(-x.e)) \div (2 * Pow10(-x.e)))

WeightMarketShare == Num(3, -1)
WeightNps == Num(25, -2)
WeightWinLoss == Num(25, -2)
WeightBenchmark == Num(2, -1)

\* Math.min(Math.max(x, 0), 100)
Clamp100(x) == Min(Max(x, Zero), Whole(100))

\* calculateWeightedScore clamping every term instead of the sum
calculateWeightedScoreClampedTerms(marketShare, npsScore, winLossRatio, competitorBenchmark) ==
  Round(Add(Add(Add(Mul(Clamp100(marketShare), WeightMarketShare),
                    Mul(Clamp100(npsScore), WeightNps)),
                Mul(Clamp100(winLossRatio), WeightWinLoss)),
            Mul(Clamp100(competitorBenchmark), WeightBenchmark)))

calculateWeightedScore(marketShare, npsScore, winLossRatio, competitorBenchmark) ==
  Round(Clamp100(Add(Add(Add(Mul(marketShare, WeightMarketShare),
                             Mul(npsScore, WeightNps)),
                         Mul(winLossRatio, WeightWinLoss)),
                     Mul(competitorBenchmark, WeightBenchmark))))

\* metric values handed to the scorer
ScoreInputs ==
  {Whole(-50), Zero, Whole(5), Num(333, -1), Whole(100), Whole(150), Whole(250)}
ScoreCalls ==
  {[fn |-> "calculateWeightedScore", marketShare |-> a, npsScore |-> b,
    winLossRatio |-> c, competitorBenchmark |-> d] :
     a \in ScoreInputs, b \in ScoreInputs, c \in ScoreInputs, d \in ScoreInputs}

\* text is a sequence of characters
UpperLetters ==
  <<"A", "B", "C", "D", "E", "F", "G", "H", "I", "J", "K", "L", "M", "N",
    "O", "P", "Q", "R", "S", "T", "U", "V", "W", "X", "Y", "Z">>
LowerLetters ==
  <<"a", "b", "c", "d", "e", "f", "g", "h", "i", "j", "k", "l", "m", "n",
    "o", "p", "q", "r", "s", "t", "u", "v", "w", "x", "y", "z">>
LowerDigits ==
  {LowerLetters[i] : i \in 1..26} \cup {"0", "1", "2", "3", "4", "5", "6", "7", "8", "9"}

\* c.toLowerCase()
ToLower(c) ==
  IF \E i \in 1..26 : UpperLetters[i] = c
    THEN LowerLetters[CHOOSE i \in 1..26 : UpperLetters[i] = c]
    ELSE c

RECURSIVE LowerAll(_)
LowerAll(name) ==
  IF name = <<>> THEN <<>> ELSE <<ToLower(Head(name))>> \o LowerAll(Tail(name))

\* String(name).toLowerCase().replace(/[^a-z0-9]/g, '')
norm(name) == SelectSeq(LowerAll(name), LAMBDA c : c \in LowerDigits)

\* a.includes(b)
Includes(a, b) ==
  \E i \in 0..(Len(a) - Len(b)) : SubSeq(a, i + 1, i + Len(b)) = b

\* the fields of the schema, in the order of the synonyms object
MappingFields ==
  <<"month", "revenue", "cogs", "opex", "ebitda", "cash", "ar", "ap", "inventory">>

synonyms ==
  [month |->
     <<<<"m", "o", "n", "t", "h">>, <<"p", "e", "r", "i", "o", "d">>,
       <<"d", "a", "t", "e">>,
       <<"p", "e", "r", "i", "o", "d", "e", "n", "d", "i", "n", "g">>,
       <<"p", "e", "r", "i", "o", "d", "e", "n", "d">>,
       <<"m", "o", "n", "t", "h", "e", "n", "d", "i", "n", "g">>>>,
   revenue |->
     <<<<"r", "e", "v", "e", "n", "u", "e">>,
       <<"i", "n", "c", "o", "m", "e">>, <<"s", "a", "l", "e", "s">>,
       <<"t", "o", "t", "a", "l", "s", "a", "l", "e", "s">>,
       <<"t", "o", "t", "a", "l", "i", "n", "c", "o", "m", "e">>,
       <<"t", "o", "t", "a", "l", "r", "e", "v", "e", "n", "u", "e">>>>,
   cogs |->
     <<<<"c", "o", "g", "s">>,
       <<"c", "o", "s", "t", "o", "f", "g", "o", "o", "d", "s">>,
       <<"c", "o", "s", "t", "o", "f", "g", "o", "o", "d", "s", "s", "o", "l", "d">>,
       <<"c", "o", "s">>>>,
   opex |->
     <<<<"o", "p", "e", "x">>,
       <<"o", "p", "e", "r", "a", "t", "i", "n", "g", "e", "x", "p", "e", "n", "s", "e", "s">>,
       <<"e", "x", "p", "e", "n", "s", "e", "s">>,
       <<"s", "g", "n", "a">>,
       <<"o", "v", "e", "r", "h", "e", "a", "d">>,
       <<"o", "p", "e", "r", "a", "t", "i", "n", "g", "e", "x", "p", "e", "n", "s", "e">>>>,
   ebitda |->
     <<<<"e", "b", "i", "t", "d", "a">>,
       <<"o", "p", "e", "r", "a", "t", "i", "n", "g", "p", "r", "o", "f", "i", "t">>,
       <<"o", "p", "e", "r", "a", "t", "i", "n", "g", "i", "n", "c", "o", "m", "e">>>>,
   cash |->
     <<<<"c", "a", "s", "h">>,
       <<"c", "a", "s", "h", "a", "n", "d", "c", "a", "s", "h", "e", "q", "u", "i", "v", "a", "l", "e", "n", "t", "s">>,
       <<"c", "a", "s", "h", "b", "a", "l", "a", "n", "c", "e">>>>,
   ar |->
     <<<<"a", "c", "c", "o", "u", "n", "t", "s", "r", "e", "c", "e", "i", "v", "a", "b", "l", "e">>,
       <<"a", "r">>,
       <<"t", "r", "a", "d", "e", "a", "c", "c", "o", "u", "n", "t", "s", "r", "e", "c", "e", "i", "v", "a", "b", "l", "e">>,
       <<"r", "e", "c", "e", "i", "v", "a", "b", "l", "e", "s">>>>,
   ap |->
     <<<<"a", "c", "c", "o", "u", "n", "t", "s", "p", "a", "y", "a", "b", "l", "e">>,
       <<"a", "p">>,
       <<"t", "r", "a", "d", "e", "p", "a", "y", "a", "b", "l", "e", "s">>,
       <<"p", "a", "y", "a", "b", "l", "e", "s">>>>,
   inventory |->
     <<<<"i", "n", "v", "e", "n", "t", "o", "r", "y">>,
       <<"s", "t", "o", "c", "k">>,
       <<"i", "n", "v", "e", "n", "t", "o", "r", "y", "b", "a", "l", "a", "n", "c", "e">>>>]

\* a mapping object: every field a column index, null or undefined
Mapping(month, revenue, cogs, opex, ebitda, cash, ar, ap, inventory) ==
  [k |-> "object", month |-> month, revenue |-> revenue, cogs |-> cogs, opex |-> opex,
   ebitda |-> ebitda, cash |-> cash, ar |-> ar, ap |-> ap, inventory |-> inventory]

\* !v for a column index: undefined, null and 0 are falsy
Falsy(v) == v.k \in {"undefined", "null", "nan"} \/ v = Zero

RECURSIVE SynLoop(_, _, _, _, _)
\* the inner loop of bestMatch over the synonyms, for the header at idx
SynLoop(nh, normSyns, j, idx, best) ==
  IF j > Len(normSyns) THEN best
  ELSE IF /\ Includes(nh, normSyns[j]) \/ Includes(normSyns[j], nh)
          /\ (IF nh = normSyns[j] THEN 2 ELSE 1) > best.score
    THEN SynLoop(nh, normSyns, j + 1, idx,
                 [idx |-> Whole(idx), score |-> IF nh = normSyns[j] THEN 2 ELSE 1])
  ELSE SynLoop(nh, normSyns, j + 1, idx, best)

RECURSIVE HeaderLoop(_, _, _, _)
\* headers.forEach of bestMatch; the header at JavaScript index idx is headers[idx + 1]
HeaderLoop(headers, normSyns, idx, best) ==
  IF idx >= Len(headers) THEN best
  ELSE HeaderLoop(headers, normSyns, idx + 1,
                  SynLoop(norm(headers[idx + 1]), normSyns, 1, idx, best))

NormAll(syns) == [j \in 1..Len(syns) |-> norm(syns[j])]

\* the index of the best matching header, null when none matches
bestMatch(syns, headers) ==
  HeaderLoop(headers, NormAll(syns), 0, [idx |-> Null, score |-> 0]).idx

\* lines 83-93: the mapping found by the synonym rules
RuleIndex(field, headers) ==
  IF bestMatch(synonyms[field], headers) = Null THEN Undefined
  ELSE bestMatch(synonyms[field], headers)

RuleMapping(headers) ==
  Mapping(RuleIndex("month", headers), RuleIndex("revenue", headers),
          RuleIndex("cogs", headers), RuleIndex("opex", headers),
          RuleIndex("ebitda", headers), RuleIndex("cash", headers),
          RuleIndex("ar", headers), RuleIndex("ap", headers),
          RuleIndex("inventory", headers))

unmatchedFields(headers) ==
  {i \in 1..Len(MappingFields) : bestMatch(synonyms[MappingFields[i]], headers) = Null}

\* line 96: the AI fallback is asked
NeedsAI(headers) ==
  \/ Falsy(RuleIndex("month", headers))
  \/ Falsy(RuleIndex("revenue", headers))
  \/ Cardinality(unmatchedFields(headers)) > 3

\* lines 100-104: a field the rules left unmatched takes the AI's value
MergedField(field, headers, aiMapping) ==
  IF bestMatch(synonyms[field], headers) = Null /\ aiMapping[field] # Undefined
    THEN aiMapping[field]
    ELSE RuleIndex(field, headers)

\* lines 106-107: if (!mapping[field] && aiMapping[field] !== undefined)
CriticalField(field, headers, aiMapping) ==
  IF Falsy(MergedField(field, headers, aiMapping)) /\ aiMapping[field] # Undefined
    THEN aiMapping[field]
    ELSE MergedField(field, headers, aiMapping)

\* the mapping after the merge of lines 99-107
MergeAI(headers, aiMapping) ==
  Mapping(CriticalField("month", headers, aiMapping),
          CriticalField("revenue", headers, aiMapping),
          MergedField("cogs", headers, aiMapping), MergedField("opex", headers, aiMapping),
          MergedField("ebitda", headers, aiMapping), MergedField("cash", headers, aiMapping),
          MergedField("ar", headers, aiMapping), MergedField("ap", headers, aiMapping),
          MergedField("inventory", headers, aiMapping))

\* aiMapping is the object suggestMappingWithAI resolves to, or a throw
suggestMapping(headers, aiMapping) ==
  IF NeedsAI(headers) /\ aiMapping.k = "object" THEN MergeAI(headers, aiMapping)
  ELSE RuleMapping(headers)

\* header rows handed to suggestMapping
HeadersMonthFirst ==
  <<<<"M", "o", "n", "t", "h">>,
    <<"R", "e", "v", "e", "n", "u", "e">>,
    <<"C", "O", "G", "S">>>>
HeadersRevenueFirst ==
  <<<<"R", "e", "v", "e", "n", "u", "e">>,
    <<"M", "o", "n", "t", "h">>>>
HeadersLedger ==
  <<<<"I", "d">>,
    <<"P", "e", "r", "i", "o", "d", " ", "E", "n", "d", "i", "n", "g">>,
    <<"T", "o", "t", "a", "l", " ", "S", "a", "l", "e", "s">>,
    <<"O", "p", ".", " ", "E", "x", "p", "e", "n", "s", "e", "s">>,
    <<"C", "a", "s", "h">>,
    <<"S", "t", "o", "c", "k">>>>
HeadersComplete ==
  <<<<"N", "o", "t", "e", "s">>,
    <<"D", "a", "t", "e">>,
    <<"S", "a", "l", "e", "s">>,
    <<"C", "O", "G", "S">>,
    <<"O", "p", "e", "x">>,
    <<"E", "B", "I", "T", "D", "A">>,
    <<"C", "a", "s", "h">>>>
HeadersUnknown ==
  <<<<"C", "o", "l", " ", "A">>,
    <<"C", "o", "l", " ", "B">>>>
HeaderRows ==
  {HeadersMonthFirst, HeadersRevenueFirst, HeadersLedger, HeadersComplete, HeadersUnknown}

\* what suggestMappingWithAI may resolve to; Thrown when it rejects
Thrown == [k |-> "throw"]
AIReplies ==
  { Thrown,
    Mapping(Undefined, Undefined, Undefined, Undefined, Undefined, Undefined, Undefined,
            Undefined, Undefined),
    Mapping(Whole(1), Whole(2), Null, Undefined, Undefined, Undefined, Undefined,
            Undefined, Undefined),
    Mapping(Whole(2), Zero, Whole(1), Whole(3), Whole(4), Whole(5), Whole(6), Null, Null),
    Mapping(Null, Null, Whole(2), Null, Null, Null, Null, Null, Null) }

MappingCalls == {[fn |-> "suggestMapping", headers |-> h] : h \in HeaderRows}

\* suggestMapping: the AI fallback is awaited only when line 96 asks for it
SuggestMapping ==
  /\ call.fn = "suggestMapping" /\ ret = Pending
  /\ IF NeedsAI(call.headers)
       THEN \E aiMapping \in AIReplies :
              /\ gemini' = [called |-> TRUE, reply |-> aiMapping]
              /\ ret' = [kind |-> "return",
                         value |-> suggestMapping(call.headers, aiMapping)]
       ELSE /\ gemini' = gemini
            /\ ret' = [kind |-> "return", value |-> suggestMapping(call.headers, Thrown)]
  /\ UNCHANGED <<call, again, uploadVars>>

CalculateWeightedScore ==
  /\ call.fn = "calculateWeightedScore" /\ ret = Pending
  /\ ret' = [kind |-> "return",
             value |-> calculateWeightedScore(call.marketShare, call.npsScore,
                                              call.winLossRatio, call.competitorBenchmark)]
  /\ UNCHANGED <<call, gemini, again, uploadVars>>

UtilInit ==
  /\ \/ call \in ScoreCalls
     \/ call \in MappingCalls
  /\ gemini = NotCalled
  /\ ret = Pending
  /\ again = Pending
  /\ NoUploadTraffic

UtilNext ==
  \/ CalculateWeightedScore
  \/ SuggestMapping

UtilSpec == UtilInit /\ [][UtilNext]_vars

(***************************************************************************)
(* analyzeUpload, commitUpload, getUploadStatus and the processUpload      *)
(* worker.  Every await on Firestore or storage is one step; the code      *)
(* between two awaits runs with the step that resumes it.  The rows        *)
(* written to financialSnapshotMonthly and companies are not kept.         *)
(***************************************************************************)
FullMapping == [sent |-> TRUE, month |-> 0, revenue |-> 1]
CommitMappings ==
  { NoMapping,
    FullMapping,
    [sent |-> TRUE, month |-> 0, revenue |-> NullColumn] }

NotFound == Reply(404, "Upload not found")
CompanyRequired == Reply(400, "companyId required")
ArgumentsRequired == Reply(400, "uploadId and mapping required")
AlreadyProcessed == Reply(400, "Upload already processed")
FieldsRequired == Reply(400, "month and revenue mapping required")
Queued == Reply(200, "queued")

\* the document read by db.collection('uploads').doc(uploadId).get()
UploadDoc(uploadId) == IF uploadId \in UploadIds THEN uploads[uploadId] ELSE NoUpload

\* UploadVisible ignoring the tenant
UploadVisibleToAll(doc, companyId) == doc.exists

\* the negation of !doc.exists || doc.data().tenantId !== companyId
UploadVisible(doc, companyId) == doc.exists /\ doc.tenantId = companyId

\* the id built from Date.now() and Math.random(): one not used before
FreshId == IF ~uploads["u1"].exists THEN "u1" ELSE "u2"

\* the tenants that may send the next upload: the first upload is taken to
\* be t1's, the tenants being interchangeable until then
Uploaders == IF FreshId = "u1" THEN {"t1"} ELSE Tenants

\* analyzeUpload (lines 10-62): the file is stored and the record created
AnalyzeUpload ==
  /\ \E u \in UploadIds : ~uploads[u].exists
  /\ \E companyId \in Uploaders :
       uploads' = [uploads EXCEPT ![FreshId] = NewUpload(companyId)]
  /\ UNCHANGED <<mappings, reqs, workers, statusReply, engineVars>>

\* the reply of lines 66-72, NoReply when the request passes them
ArgumentCheck(companyId, uploadId, mapping) ==
  IF companyId = Missing THEN CompanyRequired
  ELSE IF uploadId = Missing \/ ~mapping.sent THEN ArgumentsRequired
  ELSE NoReply

\* the request bodies sent: every tenant with every upload and mapping, and
\* one body for each field that can be absent
CommitBodies ==
  [companyId : Tenants, uploadId : UploadIds, mapping : CommitMappings]
    \cup [companyId : Tenants, uploadId : {Missing}, mapping : {FullMapping}]
    \cup [companyId : {Missing}, uploadId : {"u1"}, mapping : {FullMapping}]

\* commitUpload, lines 66-75: requests arrive in the order of their numbers
CommitReceive(r) ==
  /\ reqs[r].pc = "idle"
  /\ \A q \in Requests : q < r => reqs[q].pc # "idle"
  /\ \E b \in CommitBodies :
       reqs' = [reqs EXCEPT ![r] =
                  [pc |-> IF ArgumentCheck(b.companyId, b.uploadId, b.mapping) = NoReply
                            THEN "getUpload" ELSE "done",
                   companyId |-> b.companyId, uploadId |-> b.uploadId,
                   mapping |-> b.mapping, snap |-> 0,
                   reply |-> ArgumentCheck(b.companyId, b.uploadId, b.mapping)]]
  /\ UNCHANGED <<uploads, mappings, workers, statusReply, engineVars>>

\* the reply of lines 76-87 on the document read, NoReply when it passes
UploadCheck(doc, companyId, mapping) ==
  IF ~UploadVisible(doc, companyId) THEN NotFound
  ELSE IF doc.status # "pending" THEN AlreadyProcessed
  ELSE IF mapping.month = NullColumn \/ mapping.revenue = NullColumn THEN FieldsRequired
  ELSE NoReply

\* commitUpload, lines 75-94: the upload document arrives
CommitGetUpload(r) ==
  /\ reqs[r].pc = "getUpload"
  /\ reqs' = [reqs EXCEPT
       ![r].reply = UploadCheck(UploadDoc(reqs[r].uploadId), reqs[r].companyId,
                                reqs[r].mapping),
       ![r].pc = IF UploadCheck(UploadDoc(reqs[r].uploadId), reqs[r].companyId,
                                reqs[r].mapping) = NoReply
                   THEN "queryMappings" ELSE "done"]
  /\ UNCHANGED <<uploads, mappings, workers, statusReply, engineVars>>

\* the documents of uploadMappings for a tenant (type is always FinancialTemplateV1)
TenantMappings(companyId) ==
  {i \in 1..Len(mappings) : mappings[i].tenantId = companyId}

\* commitUpload, lines 90-108: the query snapshot arrives; limit(1) yields
\* one of the tenant's documents, 0 stands for the empty snapshot
CommitQueryMappings(r) ==
  /\ reqs[r].pc = "queryMappings"
  /\ \/ /\ TenantMappings(reqs[r].companyId) = {}
        /\ reqs' = [reqs EXCEPT ![r].snap = 0, ![r].pc = "saveMapping"]
     \/ \E i \in TenantMappings(reqs[r].companyId) :
          reqs' = [reqs EXCEPT ![r].snap = i, ![r].pc = "saveMapping"]
  /\ UNCHANGED <<uploads, mappings, workers, statusReply, engineVars>>

\* lines 96-102
MappingData(companyId, mapping) == [tenantId |-> companyId, mapping |-> mapping]

\* commitUpload, lines 104-116: the mapping is added or updated, then
\* processUpload is called (it runs to its first await) and 'queued' is sent
CommitSaveMapping(r) ==
  /\ reqs[r].pc = "saveMapping"
  /\ \/ /\ reqs[r].snap = 0
        /\ mappings' = Append(mappings, MappingData(reqs[r].companyId, reqs[r].mapping))
     \/ /\ reqs[r].snap # 0
        /\ mappings' = [mappings EXCEPT
                          ![reqs[r].snap] = MappingData(reqs[r].companyId, reqs[r].mapping)]
  /\ workers' = [workers EXCEPT ![r] = "get"]
  /\ reqs' = [reqs EXCEPT ![r].reply = Queued, ![r].pc = "done"]
  /\ UNCHANGED <<uploads, statusReply, engineVars>>

\* the reply of getUploadStatus (lines 121-138)
StatusReplyFor(companyId, doc) ==
  IF companyId = Missing THEN CompanyRequired
  ELSE IF ~UploadVisible(doc, companyId) THEN NotFound
  ELSE Reply(200, doc.status)

\* getUploadStatus: one request is followed per behaviour
GetUploadStatus ==
  /\ statusReply = NoStatusRequest
  /\ \E companyId \in Tenants \cup {Missing}, uploadId \in UploadIds :
       statusReply' = [companyId |-> companyId, uploadId |-> uploadId,
                       reply |-> StatusReplyFor(companyId, UploadDoc(uploadId))]
  /\ UNCHANGED <<uploads, mappings, reqs, workers, engineVars>>

\* processUpload, lines 9-14: the document arrives, or the read fails and
\* the promise rejects
WorkerGet(r) ==
  /\ workers[r] = "get"
  /\ \/ workers' = [workers EXCEPT ![r] =
                      IF UploadDoc(reqs[r].uploadId).exists THEN "markProcessing"
                      ELSE "resolved"]
     \/ workers' = [workers EXCEPT ![r] = "rejected"]
  /\ UNCHANGED <<uploads, mappings, reqs, statusReply, engineVars>>

\* processUpload, lines 14-16: the status update is applied, or it fails
\* outside the try block and the promise rejects
WorkerMarkProcessing(r) ==
  /\ workers[r] = "markProcessing"
  /\ \/ /\ uploads' = [uploads EXCEPT ![reqs[r].uploadId].status = "processing"]
        /\ workers' = [workers EXCEPT ![r] = "work"]
     \/ /\ workers' = [workers EXCEPT ![r] = "rejected"]
        /\ UNCHANGED uploads
  /\ UNCHANGED <<mappings, reqs, statusReply, engineVars>>

\* processUpload, lines 18-94: download, parse and upserts all succeed, or
\* one of them throws into the catch block
WorkerProcess(r) ==
  /\ workers[r] = "work"
  /\ \/ workers' = [workers EXCEPT ![r] = "markSucceeded"]
     \/ workers' = [workers EXCEPT ![r] = "markFailed"]
  /\ UNCHANGED <<uploads, mappings, reqs, statusReply, engineVars>>

\* processUpload, lines 96-101: the update is applied, or it fails inside
\* the try block
WorkerMarkSucceeded(r) ==
  /\ workers[r] = "markSucceeded"
  /\ \/ /\ uploads' = [uploads EXCEPT ![reqs[r].uploadId].status = "succeeded"]
        /\ workers' = [workers EXCEPT ![r] = "resolved"]
     \/ /\ workers' = [workers EXCEPT ![r] = "markFailed"]
        /\ UNCHANGED uploads
  /\ UNCHANGED <<mappings, reqs, statusReply, engineVars>>

\* processUpload, lines 102-109: the update of the catch block is applied
\* and err is rethrown, or the update itself fails
WorkerMarkFailed(r) ==
  /\ workers[r] = "markFailed"
  /\ \/ uploads' = [uploads EXCEPT ![reqs[r].uploadId].status = "failed"]
     \/ UNCHANGED uploads
  /\ workers' = [workers EXCEPT ![r] = "rejected"]
  /\ UNCHANGED <<mappings, reqs, statusReply, engineVars>>

NoCall == [fn |-> "none"]

UploadInit ==
  /\ NoUploadTraffic
  /\ call = NoCall
  /\ gemini = NotCalled
  /\ ret = Pending
  /\ again = Pending

CommitStep(r) ==
  \/ CommitReceive(r)
  \/ CommitGetUpload(r)
  \/ CommitQueryMappings(r)
  \/ CommitSaveMapping(r)

WorkerStep(r) ==
  \/ WorkerGet(r)
  \/ WorkerMarkProcessing(r)
  \/ WorkerProcess(r)
  \/ WorkerMarkSucceeded(r)
  \/ WorkerMarkFailed(r)

UploadNext ==
  \/ AnalyzeUpload
  \/ GetUploadStatus
  \/ \E r \in Requests : CommitStep(r)
  \/ \E r \in Requests : WorkerStep(r)

UploadSpec == UploadInit /\ [][UploadNext]_vars

\* every request received is served and every worker started runs on: the
\* event loop resumes each pending await once its operation has returned
UploadFairness ==
  \A r \in Requests :
    /\ WF_vars(CommitGetUpload(r))
    /\ WF_vars(CommitQueryMappings(r))
    /\ WF_vars(CommitSaveMapping(r))
    /\ WF_vars(WorkerStep(r))

UploadLive == UploadSpec /\ UploadFairness

(***************************************************************************)
(* Properties                                                              *)
(***************************************************************************)
Returned(fn) == call.fn = fn /\ ret.kind = "return"

\* the projections calculateScenarioROI worked on in this call
UsedProjections == EffectiveProjections(call.roiProjections, gemini.reply)

\* C1: when neither a baseline nor any of realistic/optimistic/pessimistic is
\* resolvable, even after the fill, calculateScenarioROI signals a failure
\* to its caller and returns no numeric result.
C1_NoDataSignalsFailure ==
  (/\ call.fn = "calculateScenarioROI"
   /\ ret.kind # "pending"
   /\ ~Present(UsedProjections.baseline)
   /\ ~Present(UsedProjections.realistic)
   /\ ~Present(UsedProjections.optimistic)
   /\ ~Present(UsedProjections.pessimistic))
  => ret.kind = "throw"

\* x has at most two decimals
IsCents(x) == IsFinite(x) /\ (x.m = 0 \/ x.e >= -2)

\* C2: in every result of calculateScenarioROI, deltaNPV = scenario.npv -
\* baseline.npv, and scenarioRoiPercent is 100 * deltaNPV / |baseline.npv|
\* rounded to 2 decimals when |baseline.npv| > 1e-6, and otherwise 100 if
\* scenario.npv is not 0 and 0 if it is.
C2_RoiInvariant ==
  Returned("calculateScenarioROI") =>
    LET v == ret.value
        b == v.baseline.npv
        sc == v.scenario.npv
        exact == Div(Mul(Whole(100), v.deltaNPV), Abs(b))
    IN  /\ v.deltaNPV = Sub(sc, b)
        /\ IF Gt(Abs(b), Num(1, -6))
             THEN /\ IsCents(v.scenarioRoiPercent)
                  /\ Le(Abs(Sub(v.scenarioRoiPercent, exact)), Num(5, -3))
             ELSE v.scenarioRoiPercent = (IF sc # Zero THEN Whole(100) ELSE Zero)

\* a result whose percentage was really rounded
C2_Witness ==
  /\ Returned("calculateScenarioROI")
  /\ Gt(Abs(ret.value.baseline.npv), Num(1, -6))
  /\ ret.value.scenarioRoiPercent # Zero
  /\ ret.value.scenarioRoiPercent #
       Mul(Div(ret.value.deltaNPV, Abs(ret.value.baseline.npv)), Whole(100))

\* the number of sign changes along a series, zeros skipped
SignChanges(items) ==
  LET nz == SelectSeq(items, LAMBDA x : x.m # 0)
  IN  Cardinality({i \in 1..(Len(nz) - 1) : Sgn(nz[i]) # Sgn(nz[i + 1])})

\* C3: for every series with exactly one sign change, the rate r returned by
\* computeIRR with the default guess satisfies |NPV(r, s)| <= 1e-4.
C3_IrrZeroesNpv ==
  (/\ Returned("computeIRR") /\ call.guess = DefaultGuess
   /\ SignChanges(call.cashflows.items) = 1)
  => Le(Abs(computeNPV(ret.value, call.cashflows)), Num(1, -4))

RECURSIVE FirstPresent(_)
\* the first projection of the list that is present, Undefined when none is
FirstPresent(ps) ==
  IF ps = <<>> THEN Undefined
  ELSE IF Present(Head(ps)) THEN Head(ps)
  ELSE FirstPresent(Tail(ps))

\* C4: calculateScenarioROI uses as the scenario the first present projection
\* in the order realistic, optimistic, pessimistic, and never the baseline:
\* with none of the three present the scenario series is the one of an
\* absent projection.
C4_ScenarioChoice ==
  Returned("calculateScenarioROI") =>
    ret.value.scenario.cashflows =
      buildCashflowsFromProjection(
        FirstPresent(<<UsedProjections.realistic, UsedProjections.optimistic,
                       UsedProjections.pessimistic>>),
        call.horizonYears, DefaultCapexPct, DefaultNwcPct)

\* optimistic chosen over pessimistic because realistic is absent
C4_Witness ==
  /\ Returned("calculateScenarioROI")
  /\ ~Present(UsedProjections.realistic)
  /\ Present(UsedProjections.optimistic)
  /\ Present(UsedProjections.pessimistic)
  /\ Present(UsedProjections.baseline)
  /\ ret.value.scenario.cashflows # ret.value.baseline.cashflows

\* the sensitivity call of this behaviour
Rows == ret.value
SweepNames == <<"discountRate", "growthRate", "terminalMultiple", "capexPct", "nwcPct">>

\* the default value of each sweep, used when the list is omitted
SweepDefault(name) ==
  LET bp == call.baseProjections
      scen == FirstPresent(<<bp.realistic, bp.optimistic, bp.pessimistic, bp.baseline>>)
  IN  CASE name = "discountRate" ->
             IF IsFinite(Number(bp.discountRate)) THEN bp.discountRate ELSE Num(1, -1)
        [] name = "growthRate" ->
             IF IsFinite(Number(Field(scen, "growthRate"))) THEN scen.growthRate
             ELSE Num(3, -2)
        [] name = "terminalMultiple" ->
             IF IsFinite(Number(Field(scen, "terminalMultiple")))
               THEN scen.terminalMultiple ELSE Whole(8)
        [] name = "capexPct" -> Num(3, -2)
        [] name = "nwcPct" -> Num(1, -2)

\* the list as supplied, an omitted list counting as the single default
SuppliedList(name) ==
  IF IsArray(call.sweeps[name]) THEN call.sweeps[name].items ELSE <<SweepDefault(name)>>

\* the list the grid runs over: the supplied one, or the single default when
\* it is omitted or empty
GridList(name) ==
  IF IsArray(call.sweeps[name]) /\ call.sweeps[name].items # <<>>
    THEN call.sweeps[name].items
    ELSE <<SweepDefault(name)>>

\* the number of combinations of the lists L[k], ..., L[5]
RECURSIVE Combos(_, _)
Combos(L, k) == IF k > 5 THEN 1 ELSE Len(L[k]) * Combos(L, k + 1)

\* the rows are the Cartesian product of the five lists L in nesting order:
\* row i holds, for sweep k, the entry of L[k] at digit k of i - 1 written in
\* the mixed radix of the list lengths, discountRate most significant
IsProductInNestingOrder(rows, L) ==
  /\ Len(rows) = Combos(L, 1)
  /\ \A i \in 1..Len(rows) : \A k \in 1..5 :
       rows[i][SweepNames[k]] =
         L[k][(((i - 1) \div Combos(L, k + 1)) % Len(L[k])) + 1]

\* C5 as stated: one row per element of the Cartesian product of the five
\* sweep lists as supplied (an omitted list counting as a single default
\* value), in nesting order discountRate, growthRate, terminalMultiple,
\* capexPct, nwcPct, each list in the order supplied.
C5_ProductOfSuppliedLists ==
  Returned("runSensitivityAnalysis") =>
    IsProductInNestingOrder(Rows, [k \in 1..5 |-> SuppliedList(SweepNames[k])])

\* C5 amended: an empty list counts as omitted too; the rows are the
\* Cartesian product of the resulting lists of numbers in the same nesting
\* order.
C5_ProductOfGridLists ==
  Returned("runSensitivityAnalysis") =>
    IsProductInNestingOrder(Rows, [k \in 1..5 |-> GridList(SweepNames[k])])

\* a grid over three lists of two values each
C5_Witness ==
  /\ Returned("runSensitivityAnalysis")
  /\ Len(Rows) = 8
  /\ Len(GridList("growthRate")) = 2
  /\ Len(GridList("terminalMultiple")) = 2
  /\ Len(GridList("nwcPct")) = 2
  /\ Rows[1].nwcPct # Rows[2].nwcPct
  /\ Rows[1].growthRate # Rows[8].growthRate

\* all five sweep lists hold exactly one number, and capexPct and nwcPct hold
\* the percentages calculateScenarioROI works with
SingleValuedSweeps ==
  /\ \A k \in 1..5 :
       /\ IsArray(call.sweeps[SweepNames[k]])
       /\ Len(call.sweeps[SweepNames[k]].items) = 1
       /\ IsFinite(call.sweeps[SweepNames[k]].items[1])
  /\ call.sweeps.capexPct.items[1] = Num(3, -2)
  /\ call.sweeps.nwcPct.items[1] = Num(1, -2)

\* p with the swept growthRate and terminalMultiple substituted, when present
WithSwept(p) ==
  IF Present(p)
    THEN [p EXCEPT !.growthRate = call.sweeps.growthRate.items[1],
                   !.terminalMultiple = call.sweeps.terminalMultiple.items[1]]
    ELSE p

\* the projection set of the sensitivity call with the single swept values
\* substituted into the discount rate and the scenario projections
SubstitutedProjections ==
  LET bp == call.baseProjections
  IN  ProjectionSet(bp.baseline, WithSwept(bp.optimistic), WithSwept(bp.realistic),
                    WithSwept(bp.pessimistic), call.sweeps.discountRate.items[1])

\* C6: with all five sweep lists of length 1, runSensitivityAnalysis returns
\* exactly one row, whose baselineNPV, scenarioNPV, deltaNPV and scenarioIRR
\* are those calculateScenarioROI returns for the same projection set and
\* horizon with the single values substituted (here with a fill that
\* returns nothing).
C6_SingleRowEqualsScenarioROI ==
  (Returned("runSensitivityAnalysis") /\ SingleValuedSweeps) =>
    /\ Len(Rows) = 1
    /\ LET roi == calculateScenarioROI(SubstitutedProjections, Null, call.horizonYears)
       IN  /\ Rows[1].baselineNPV = roi.baseline.npv
           /\ Rows[1].scenarioNPV = roi.scenario.npv
           /\ Rows[1].deltaNPV = roi.deltaNPV
           /\ Rows[1].scenarioIRR = roi.scenario.irr

\* the series of a projection with the given growth rate and terminal multiple
SeriesWith(projection, growth, multiple, years, capexPct, nwcPct) ==
  LET y == YearLoop(<<Number(OrElse(Field(projection, "initialInvestment"), Zero))>>,
                    BaseFlow(projection), 1, years, growth, capexPct, nwcPct)
      n == Len(y.flows)
      terminal == Mul(Mul(y.f, Add(Whole(1), Min(growth, Num(3, -2)))), multiple)
  IN  Arr([y.flows EXCEPT ![n] = Add(y.flows[n], terminal)])

\* C7: every row is computed with the parameter values it reports: its
\* scenarioNPV and scenarioIRR are those of the scenario series built with the
\* row's growthRate, terminalMultiple, capexPct and nwcPct, and both NPVs are
\* discounted at the row's discountRate, for positive, zero and negative
\* swept values.
C7_RowsUseReportedValues ==
  Returned("runSensitivityAnalysis") =>
    \A i \in 1..Len(Rows) :
      LET row == Rows[i]
          scen == SeriesWith(SweepScenario(call.baseProjections), row.growthRate,
                             row.terminalMultiple, call.horizonYears, row.capexPct,
                             row.nwcPct)
          base == buildCashflowsFromProjection(
                    OrProj(call.baseProjections.baseline, EmptyObj),
                    call.horizonYears, row.capexPct, row.nwcPct)
      IN  /\ row.scenarioNPV = computeNPV(row.discountRate, scen)
          /\ row.scenarioIRR = computeIRR(scen, DefaultGuess)
          /\ row.baselineNPV = computeNPV(row.discountRate, base)

C9_NpvIsDiscountedSum ==
  (Returned("computeNPV") /\ IsArray(call.cashflows)) =>
    LET s == call.cashflows.items
        x == Add(Whole(1), call.rate)
        term(t) == Div(s[t + 1], Pow(x, t))
        sum[n \in 0..Len(s)] == IF n = 0 THEN Zero ELSE Add(sum[n - 1], term(n - 1))
        plain[n \in 0..Len(s)] == IF n = 0 THEN Zero ELSE Add(plain[n - 1], s[n])
    IN  /\ ret.value = sum[Len(s)]
        /\ call.rate = Zero => ret.value = plain[Len(s)]
        /\ s = <<>> => ret.value = Zero

\* a three-entry series really discounted
C9_Witness ==
  /\ Returned("computeNPV") /\ IsArray(call.cashflows)
  /\ Len(call.cashflows.items) = 3
  /\ call.rate = Num(1, -1)
  /\ call.cashflows.items[3] = Whole(130)
  /\ ret.value # Add(Add(call.cashflows.items[1], call.cashflows.items[2]), Whole(130))

RECURSIVE Proxy(_, _, _)
\* f_t: f_1 = base, f_t = f_(t-1) * (1 + growth)
Proxy(base, growth, t) ==
  IF t <= 1 THEN base ELSE Mul(Proxy(base, growth, t - 1), Add(Whole(1), growth))

\* the proxy of year t in the build call of this behaviour
CallProxy(t) == Proxy(BaseFlow(call.projection), Growth(call.projection), t)
\* the entry of year t before the terminal adjustment
YearEntry(t) == ret.yearly.flows[t + 1]

BuiltItems == ret.value.items
LastIndex == Len(ret.value.items)

\* the projection's field when it is supplied, the default when it is absent
StatedField(name, default) ==
  IF Field(call.projection, name).k = "undefined" THEN default
  ELSE Field(call.projection, name)

\* the field is absent or a finite number
FiniteOrAbsent(name) == Field(call.projection, name).k \in {"undefined", "fin"}

\* C11: buildCashflowsFromProjection adds the terminal value
\* f_years * (1 + min(growthRate, 0.03)) * terminalMultiple to the last entry
\* and to no other entry, f_years compounding at the uncapped growthRate.
C11_TerminalOnLastEntry ==
  (/\ Returned("buildCashflowsFromProjection")
   /\ FiniteOrAbsent("growthRate") /\ FiniteOrAbsent("terminalMultiple")) =>
    /\ \A i \in 1..(LastIndex - 1) : BuiltItems[i] = ret.yearly.flows[i]
    /\ ret.yearly.f = Proxy(BaseFlow(call.projection),
                            StatedField("growthRate", Num(3, -2)), call.years)
    /\ BuiltItems[LastIndex] =
         Add(ret.yearly.flows[LastIndex],
             Mul(Mul(ret.yearly.f,
                     Add(Whole(1), Min(StatedField("growthRate", Num(3, -2)), Num(3, -2)))),
                 StatedField("terminalMultiple", Whole(8))))

\* C12: the free-cash-flow proxy is netIncome when it is a finite number > 0,
\* otherwise ebitda * 0.7 when ebitda is finite, otherwise 0 (observed as the
\* proxy f after at most one year, where f = base).
C12_ProxyPriorityChain ==
  (Returned("buildCashflowsFromProjection") /\ call.years <= 1) =>
    ret.yearly.f =
      (IF Field(call.projection, "NetIncome").k = "fin"
            /\ Field(call.projection, "NetIncome").m > 0
         THEN call.projection.NetIncome
       ELSE IF Field(call.projection, "EBITDA").k = "fin"
         THEN Mul(call.projection.EBITDA, Num(7, -1))
       ELSE Zero)

\* a NetIncome of 0 falling back to a positive EBITDA
C12_Witness ==
  /\ Returned("buildCashflowsFromProjection") /\ call.years = 1
  /\ Field(call.projection, "NetIncome") = Zero
  /\ Field(call.projection, "EBITDA") = Whole(100)
  /\ ret.yearly.f = Whole(70)

\* C13: with horizon years = N the series has exactly N + 1 entries; entry 0
\* is initialInvestment when N >= 1; with N = 0 and initialInvestment = 0 the
\* result is the single-element series holding the terminal value.
C13_SeriesLength ==
  Returned("buildCashflowsFromProjection") =>
    /\ Len(BuiltItems) = call.years + 1
    /\ (call.years >= 1 /\ Field(call.projection, "initialInvestment").k \in {"fin", "inf"})
         => BuiltItems[1] = call.projection.initialInvestment
    /\ (call.years = 0 /\ Field(call.projection, "initialInvestment") = Zero)
         => BuiltItems = <<TerminalValue(call.projection, ret.yearly.f)>>

\* no year and nothing invested: the series is the terminal value alone
C13_Witness ==
  /\ Returned("buildCashflowsFromProjection") /\ call.years = 0
  /\ Field(call.projection, "initialInvestment") = Zero
  /\ Len(BuiltItems) = 1
  /\ Gt(BuiltItems[1], Zero)

\* the spec's concrete scenario has returned
ConcreteBuilt ==
  /\ Returned("buildCashflowsFromProjection")
  /\ call.projection = Proj(Whole(100), Undefined, Whole(-500), Num(3, -2), Whole(8))
  /\ call.years = 5 /\ call.capexPct = Num(3, -2) /\ call.nwcPct = Num(1, -2)

\* the year-5 entry includes the terminal value f_5 * 1.03 * 8
ConcreteTerminal ==
  BuiltItems[6] = Add(ret.yearly.flows[6], Mul(Mul(ret.yearly.f, Num(103, -2)), Whole(8)))

\* C14 as stated: for the baseline {netIncome 100, initialInvestment -500,
\* growthRate 0.03, terminalMultiple 8}, horizon 5 and 3% / 1% drag, the
\* series starts -500, 97 and its year-5 entry includes f_5 * 1.03 * 8.
C14_StartsWith97 ==
  ConcreteBuilt =>
    /\ BuiltItems[1] = Whole(-500) /\ BuiltItems[2] = Whole(97)
    /\ ConcreteTerminal

\* C14 amended: the series starts -500, 96 (100 - 3 capex - 1 nwc) and its
\* year-5 entry includes f_5 * 1.03 * 8.
C14_StartsWith96 ==
  ConcreteBuilt =>
    /\ BuiltItems[1] = Whole(-500) /\ BuiltItems[2] = Whole(96)
    /\ ConcreteTerminal

\* the concrete series of six entries, the last one carrying the terminal value
C14_Witness ==
  /\ ConcreteBuilt
  /\ Len(BuiltItems) = 6
  /\ Gt(BuiltItems[6], Whole(1000))
  /\ Lt(ret.yearly.flows[6], Whole(110))

\* C15: the defaults apply only when the field is absent: a supplied
\* growthRate of 0 gives flat yearly proxies (every yearly entry equals the
\* first one and f stays at base), and a supplied terminalMultiple of 0
\* gives a terminal value of 0 (the last entry is the yearly entry).
C15_DefaultsOnlyWhenAbsent ==
  Returned("buildCashflowsFromProjection") =>
    /\ Field(call.projection, "growthRate") = Zero =>
         /\ ret.yearly.f = BaseFlow(call.projection)
         /\ \A t \in 1..call.years : YearEntry(t) = YearEntry(1)
    /\ Field(call.projection, "terminalMultiple") = Zero =>
         BuiltItems[LastIndex] = ret.yearly.flows[LastIndex]

\* C16: every entry of the series returned by buildCashflowsFromProjection
\* is a finite number, whatever fields are absent or non-finite.
C16_EntriesFinite ==
  Returned("buildCashflowsFromProjection") =>
    \A i \in 1..LastIndex : IsFinite(BuiltItems[i])

\* C17: computeIRR stops after at most 100 Newton iterations for every series
\* (empty, all-zero, several sign changes, non-finite entries) and every
\* finite guess, and returns a finite rate: on a non-finite step the last
\* finite iterate (the step from the returned rate is the non-finite one),
\* at the cap the last iterate (after exactly 100 steps, never below -0.99).
C17_IrrTerminatesFinite ==
  Returned("computeIRR") =>
    /\ ret.steps >= 1 /\ ret.steps <= 100
    /\ ret.exit \in {"converged", "break", "cap"}
    /\ IsFinite(ret.value)
    /\ ret.exit = "break" =>
         /\ ~IsFinite(NewtonStep(call.cashflows.items, ret.value))
         /\ ret.steps = 1 => ret.value = call.guess
    /\ ret.exit = "cap" => (ret.steps = 100 /\ Ge(ret.value, Num(-99, -2)))

\* a series on which the iteration never converges and the cap ends it
C17_Witness ==
  /\ Returned("computeIRR")
  /\ ret.exit = "cap" /\ ret.steps = 100
  /\ Len(call.cashflows.items) >= 1

\* the spec's single-period series with the default guess has returned
SinglePeriodReturned ==
  /\ Returned("computeIRR")
  /\ call.cashflows = Arr(<<Whole(-100), Whole(130)>>)
  /\ call.guess = Num(1, -1)

\* C18: computeIRR on [-100, 130] with the default guess returns through the
\* |newR - r| < 1e-7 test, not the cap, a rate within 1e-6 of 0.30.
C18_SinglePeriodConverges ==
  SinglePeriodReturned =>
    /\ ret.exit = "converged"
    /\ ret.steps < 100
    /\ Le(Abs(Sub(ret.value, Num(3, -1))), Num(1, -6))

\* the single-period call has converged near 0.30
C18_Witness ==
  /\ SinglePeriodReturned
  /\ ret.exit = "converged"
  /\ Gt(ret.value, Num(29, -2)) /\ Lt(ret.value, Num(31, -2))

\* the discountRate handed to calculateScenarioROI, as a number
SuppliedRate == Number(call.roiProjections.discountRate)

\* C19: calculateScenarioROI discounts at the supplied discountRate when it
\* is finite and at 0.10 when it is absent or non-finite; the result's
\* discountRate is the rate used for both NPVs.
C19_RateOrTenPercent ==
  Returned("calculateScenarioROI") =>
    /\ ret.value.discountRate =
         (IF IsFinite(SuppliedRate) THEN SuppliedRate ELSE Num(1, -1))
    /\ ret.value.baseline.npv =
         computeNPV(ret.value.discountRate, ret.value.baseline.cashflows)
    /\ ret.value.scenario.npv =
         computeNPV(ret.value.discountRate, ret.value.scenario.cashflows)

\* C20: two calls of calculateScenarioROI with identical inputs return
\* identical results, field for field.
C20_SameInputsSameResult ==
  (Returned("calculateScenarioROI") /\ again # Pending) =>
    again.value = ret.value

\* C21: the ROI engine never invokes the external Estimation Service:
\* no call of calculateScenarioROI or runSensitivityAnalysis reaches
\* fillRoiProjectionsViaGemini, whatever projections are missing or degenerate.
C21_NoEstimationCall == ~gemini.called

\* C22: calculateScenarioROI and runSensitivityAnalysis leave their inputs
\* unchanged: in every step the caller's projections, sweep lists and other
\* arguments are after the call what they were before it.
C22_InputsUnchanged == [][call' = call]_vars

\* a sweep that substituted several growth rates and multiples into a
\* scenario projection supplied by the caller
C22_Witness ==
  /\ Returned("runSensitivityAnalysis")
  /\ ScenarioSlot(call.baseProjections) = "realistic"
  /\ Len(ret.value) >= 4
  /\ \E i \in 1..Len(ret.value) :
       /\ ret.value[i].growthRate # call.baseProjections.realistic.growthRate
       /\ ret.value[i].terminalMultiple # call.baseProjections.realistic.terminalMultiple

\* C26: for every series and every initial guess >= -0.99 the rate returned
\* by computeIRR is >= -0.99, on the convergence, break and cap exits alike.
C26_RateAboveFloor ==
  (Returned("computeIRR") /\ Ge(call.guess, Num(-99, -2))) =>
    Ge(ret.value, Num(-99, -2))

\* the metric of the score call of this behaviour, in tenths
Tenths(name) == call[name].m * Pow10(call[name].e + 1)

\* 0.30 a + 0.25 b + 0.25 c + 0.20 d of the score call, in thousandths
WeightedThousandths ==
  30 * Tenths("marketShare") + 25 * Tenths("npsScore") + 25 * Tenths("winLossRatio")
    + 20 * Tenths("competitorBenchmark")

\* C23: calculateWeightedScore returns round(clamp(0.30 marketShare + 0.25
\* npsScore + 0.25 winLossRatio + 0.20 competitorBenchmark, 0, 100)): an
\* integer in 0..100, the clamp applied to the weighted sum only;
\* (100, 100, 100, 150) gives 100 and (0, 0, 0, 0) gives 0.
C23_WeightedScore ==
  Returned("calculateWeightedScore") =>
    /\ ret.value =
         Whole(IF WeightedThousandths <= 0 THEN 0
               ELSE IF WeightedThousandths >= 100000 THEN 100
               ELSE (WeightedThousandths + 500) \div 1000)
    /\ ret.value.k = "fin" /\ ret.value.e >= 0
    /\ Ge(ret.value, Zero) /\ Le(ret.value, Whole(100))
    /\ (/\ call.marketShare = Whole(100) /\ call.npsScore = Whole(100)
        /\ call.winLossRatio = Whole(100) /\ call.competitorBenchmark = Whole(150))
         => ret.value = Whole(100)
    /\ (/\ call.marketShare = Zero /\ call.npsScore = Zero
        /\ call.winLossRatio = Zero /\ call.competitorBenchmark = Zero)
         => ret.value = Zero

\* one term above 100 takes part in the sum with its full value
C23_Witness ==
  /\ Returned("calculateWeightedScore")
  /\ call.marketShare = Whole(250) /\ call.npsScore = Zero
  /\ call.winLossRatio = Zero /\ call.competitorBenchmark = Zero
  /\ ret.value = Whole(75)

\* C25: suggestMapping merges AI suggestions for unmatched fields only: a
\* field the synonym rules mapped to a column, the first column included,
\* keeps that column whatever the AI fallback returns.
C25_MatchedFieldsKept ==
  Returned("suggestMapping") =>
    \A i \in 1..Len(MappingFields) :
      bestMatch(synonyms[MappingFields[i]], call.headers) # Null =>
        ret.value[MappingFields[i]] = bestMatch(synonyms[MappingFields[i]], call.headers)

\* the commit requests that called processUpload for an upload
Started(u) == {r \in Requests : workers[r] # "none" /\ reqs[r].uploadId = u}

\* C27: each upload is processed at most once: whatever the interleaving of
\* commitUpload requests for one upload, processUpload is started for it at
\* most once.
C27_ProcessedAtMostOnce == \A u \in UploadIds : Cardinality(Started(u)) <= 1

\* one step of an upload's status along
\* (no record) -> pending -> processing -> succeeded | failed
StatusForward(old, new) ==
  \/ new = old
  \/ old = Missing /\ new = "pending"
  \/ old = "pending" /\ new = "processing"
  \/ old = "processing" /\ new \in {"succeeded", "failed"}

\* C24: an upload's status only moves forward: it is created pending, goes
\* pending -> processing -> succeeded or failed, and once succeeded or
\* failed it never changes again.
C24_StatusMovesForward ==
  [][\A u \in UploadIds : StatusForward(uploads[u].status, uploads'[u].status)]_vars

\* C30: uploadMappings holds at most one document per tenant (the type is
\* always FinancialTemplateV1), whatever the interleaving of commits.
C30_OneMappingPerTenant == \A t \in Tenants : Cardinality(TenantMappings(t)) <= 1

\* a request (commit or status) naming a tenant and an existing upload of
\* another tenant
Foreign(rq) ==
  /\ rq.companyId \in Tenants
  /\ rq.uploadId \in UploadIds
  /\ uploads[rq.uploadId].exists
  /\ uploads[rq.uploadId].tenantId # rq.companyId

\* the step leaves the stored state alone: no upload record touched, no
\* mapping saved, no processing started
StoreUntouched == UNCHANGED <<uploads, mappings, workers>>

\* C29 as stated: commitUpload and getUploadStatus called with a companyId
\* different from the upload's tenantId reply 404 'Upload not found' and
\* change no stored state.
C29_ForeignGets404 ==
  [][/\ \A r \in Requests :
          (reqs'[r] # reqs[r] /\ Foreign(reqs'[r])) =>
            /\ StoreUntouched
            /\ reqs'[r].pc = "done" => reqs'[r].reply = NotFound
     /\ (statusReply' # statusReply /\ Foreign(statusReply')) =>
          StoreUntouched /\ statusReply'.reply = NotFound]_vars

\* C29: a commitUpload or getUploadStatus request of another tenant never
\* gets past the tenant check: it changes no stored state, its reply holds
\* none of the upload's fields, and the reply is 404 'Upload not found', or
\* for a commit without a mapping 400 'uploadId and mapping required', sent
\* before the upload is read.
C29_TenantIsolation ==
  [][/\ \A r \in Requests :
          (reqs'[r] # reqs[r] /\ Foreign(reqs'[r])) =>
            /\ StoreUntouched
            /\ reqs'[r].pc \in {"getUpload", "done"}
            /\ reqs'[r].pc = "done" =>
                 reqs'[r].reply = IF reqs'[r].mapping.sent THEN NotFound
                                  ELSE ArgumentsRequired
     /\ (statusReply' # statusReply /\ Foreign(statusReply')) =>
          StoreUntouched /\ statusReply'.reply = NotFound]_vars

\* a commit and a status request of another tenant were both answered 404
\* while the upload was being processed
C29_Witness ==
  /\ \E r \in Requests :
       /\ Foreign(reqs[r]) /\ reqs[r].pc = "done" /\ reqs[r].reply = NotFound
       /\ uploads[reqs[r].uploadId].status = "processing"
  /\ Foreign(statusReply) /\ statusReply.reply = NotFound

\* commitUpload answered request r with status 'queued'
Accepted(r) == reqs[r].reply = Queued

\* the upload of request r has reached succeeded or failed
Settled(r) == UploadDoc(reqs[r].uploadId).status \in {"succeeded", "failed"}

\* C28: once commitUpload has accepted an upload (replied 'queued'), the
\* upload's status eventually becomes succeeded or failed, every storage and
\* database operation returning in the end, with a result or with an error.
C28_AcceptedEventuallySettles == \A r \in Requests : Accepted(r) ~> Settled(r)

====
